---- MODULE Spec2Model ----
(***************************************************************************)
(* Model of the Wikipedia principal-eigenvector notebook:                  *)
(*   get_redirects        - parse the redirect triples, close the map      *)
(*   index                - id of an article name after redirect resolution*)
(*   get_adjacency_matrix - ingest the link triples, build the 0/1 matrix  *)
(*   centrality_scores    - damped power iteration (exact arithmetic)      *)
(***************************************************************************)
EXTENDS Integers, Sequences, FiniteSets, TLC

\* ------------------------------------------------------------------ bounds
MaxRedirectLines == 3
MaxLinkLines == 2
MaxLimit == 2
MaxN == 2
MaxIter == 2

\* ------------------------------------------------------------------ data
\* Article names of the model's input files.
Names == {"A", "B", "C"}

\* Python's None.
None == "None"

\* The common URI prefix that short_name removes.
DBPEDIA_RESOURCE_PREFIX == "http://dbpedia.org/resource/"

\* A predicate token; its value is never read by the code.
Pred == "<p>"

\* An N-Triples URI token, as the symbols short_name's slice tells apart:
\* the opening marker, the common prefix, the name, the closing marker.
Uri(name) == <<"<", DBPEDIA_RESOURCE_PREFIX, name, ">">>

\* short_name: drop the opening marker and the prefix, and the last symbol.
short_name(nt_uri) == nt_uri[3]

\* line.split() of a well-formed statement: subject, predicate, object, "."
Triple(s, o) == <<Uri(s), Pred, Uri(o), ".">>

\* line.split() of lines that do not have 4 tokens: a blank line and a
\* statement that lacks its terminator.
MalformedLines == {<< >>} \cup {<<Uri("A"), Pred, Uri(o)>> : o \in {"B"}}

\* The lines a file of the model may hold.
Lines == {Triple(s, o) : s \in Names, o \in Names} \cup MalformedLines

\* dict.get(k, default) on a dict modelled as a function.
Get(d, k, default) == IF k \in DOMAIN d THEN d[k] ELSE default

\* d[k] = v on a dict modelled as a function.
Put(d, k, v) == [x \in DOMAIN d \cup {k} |-> IF x = k THEN v ELSE d[x]]

\* The limit argument: limit=None, or a positive integer <<L>>.
NoLimit == << >>
Limits == {NoLimit} \cup {<<k>> : k \in 1 .. MaxLimit}

\* The empty dict.
EmptyDict == [x \in {} |-> None]

VARIABLES
    pc,                 \* position in get_adjacency_matrix / get_redirects
    rstream,            \* lines of the redirect file read so far
    redirects,          \* the redirects dict
    redirects0,         \* the redirects dict as parsed, before the closure pass
    keys,               \* keys the closure pass has still to visit
    source,             \* closure pass: the key being walked
    target,             \* closure pass: local target
    transitive_target,  \* closure pass: local transitive_target
    seen,               \* closure pass: local seen
    limit,              \* get_adjacency_matrix's limit argument
    lstream,            \* lines of the page-links file read so far
    index_map,          \* the index_map dict
    links,              \* the links list
    X,                  \* the matrix get_adjacency_matrix returns
    rpc,                \* position in centrality_scores
    mats,               \* the matrix objects, by reference
    Xref,               \* centrality_scores: the object its local X names
    n,                  \* centrality_scores: local n
    alpha,              \* centrality_scores: argument alpha
    max_iter,           \* centrality_scores: argument max_iter
    tol,                \* centrality_scores: argument tol
    dangle,             \* centrality_scores: local dangle
    scores,             \* centrality_scores: local scores
    prev_scores,        \* centrality_scores: local prev_scores
    it                  \* centrality_scores: passes of the for loop begun

redirVars == <<rstream, redirects, redirects0, keys, source, target,
               transitive_target, seen>>
graphVars == <<lstream, index_map, links, X>>
rankVars == <<rpc, mats, Xref, n, alpha, max_iter, tol, dangle, scores,
              prev_scores, it>>
vars == <<pc, redirVars, limit, graphVars, rankVars>>

\* ------------------------------------------------------------ get_redirects

\* Faulty variant of the shape check: a line of 3 tokens passes.
MutWellFormedAtLeast3(split) == Len(split) >= 3

\* The shape check of both parsing loops: len(split) == 4.
WellFormed(split) == Len(split) = 4

\* One pass of the parsing loop's body on the dict.
ParseRedirect(d, split) ==
    IF ~WellFormed(split) THEN d
    ELSE Put(d, short_name(split[1]), short_name(split[3]))

\* for l, line in enumerate(BZ2File(redirects_filename)): one line.
ReadRedirectLine ==
    /\ pc = "parse"
    /\ Len(rstream) < MaxRedirectLines
    /\ \E line \in Lines :
          /\ rstream' = Append(rstream, line)
          /\ redirects' = ParseRedirect(redirects, line)
    /\ UNCHANGED <<pc, redirects0, keys, source, target, transitive_target,
                   seen, limit, graphVars, rankVars>>

\* The redirect file is exhausted: the closure pass starts on the keys.
EndRedirectFile ==
    /\ pc = "parse"
    /\ pc' = "closure"
    /\ rstream' = << >>
    /\ redirects0' = redirects
    /\ keys' = DOMAIN redirects
    /\ UNCHANGED <<redirects, source, target, transitive_target, seen,
                   limit, graphVars, rankVars>>

\* for l, source in enumerate(redirects.keys()): the next key, in the
\* dict's (arbitrary) key order.
NextKey ==
    /\ pc = "closure"
    /\ \E k \in keys :
          /\ source' = k
          /\ keys' = keys \ {k}
          /\ transitive_target' = None
          /\ target' = redirects[k]
          /\ seen' = {k}
    /\ pc' = "walk"
    /\ UNCHANGED <<rstream, redirects, redirects0, limit, graphVars, rankVars>>

\* Faulty variant of the exit test: the walk stops after its first hop.
MutWalkEndsFirstHop(nxt, visited) == TRUE

\* Faulty variant of the exit test: no cycle guard.
MutWalkEndsNoGuard(nxt, visited) == nxt = None

\* Faulty variant of the exit test: a walk that stands on a key the closure
\* pass has already visited stops there, taking it for a final name.
MutWalkEndsAtVisitedKey(nxt, visited) ==
    \/ nxt = None
    \/ nxt \in visited
    \/ (target \in DOMAIN redirects /\ target \notin keys /\ target # source)

\* The walk's exit test: if target is None or target in seen.
WalkEnds(nxt, visited) == nxt = None \/ nxt \in visited

\* One pass of the while loop that goes on: seen.add(target).
WalkHop ==
    /\ pc = "walk"
    /\ LET nxt == Get(redirects, target, None) IN
          /\ ~WalkEnds(nxt, seen)
          /\ transitive_target' = target
          /\ target' = nxt
          /\ seen' = seen \cup {nxt}
    /\ UNCHANGED <<pc, rstream, redirects, redirects0, keys, source, limit,
                   graphVars, rankVars>>

\* The pass of the while loop that breaks, and the store that follows it.
WalkStop ==
    /\ pc = "walk"
    /\ LET nxt == Get(redirects, target, None) IN
          /\ WalkEnds(nxt, seen)
          /\ transitive_target' = target
          /\ target' = nxt
          /\ redirects' = [redirects EXCEPT ![source] = target]
    /\ pc' = "closure"
    /\ UNCHANGED <<rstream, redirects0, keys, source, seen, limit, graphVars, rankVars>>

\* return redirects
ReturnRedirects ==
    /\ pc = "closure"
    /\ keys = {}
    /\ pc' = "returned"
    /\ UNCHANGED <<redirVars, limit, graphVars, rankVars>>

\* ----------------------------------------------------- get_adjacency_matrix

\* Faulty variant of index: a plain store in place of setdefault.
MutIndexOverwrite(redir, imap, k) ==
    LET r == Get(redir, k, k) IN
    [id |-> Cardinality(DOMAIN imap),
     map |-> Put(imap, r, Cardinality(DOMAIN imap))]

\* index(redirects, index_map, k): the id returned and index_map afterwards.
index(redir, imap, k) ==
    LET r == Get(redir, k, k) IN
    IF r \in DOMAIN imap
    THEN [id |-> imap[r], map |-> imap]
    ELSE [id |-> Cardinality(DOMAIN imap),
          map |-> Put(imap, r, Cardinality(DOMAIN imap))]

\* redirects = get_redirects(...); index_map = dict(); links = list().
\* The locals of get_redirects are gone with its frame.
BeginIngest ==
    /\ pc = "returned"
    /\ pc' = "links"
    /\ redirects0' = EmptyDict
    /\ source' = None
    /\ target' = None
    /\ transitive_target' = None
    /\ seen' = {}
    /\ index_map' = EmptyDict
    /\ links' = << >>
    /\ UNCHANGED <<rstream, redirects, keys, limit, lstream, X, rankVars>>

\* for l, line in enumerate(BZ2File(page_links_filename)): one line. A
\* malformed line is skipped by continue, which also skips the limit test.
ReadLinkLine ==
    /\ pc = "links"
    /\ Len(lstream) < MaxLinkLines
    /\ \E line \in Lines :
          LET l == Len(lstream) IN
          /\ lstream' = Append(lstream, line)
          /\ IF ~WellFormed(line)
             THEN UNCHANGED <<pc, index_map, links>>
             ELSE LET a == index(redirects, index_map, short_name(line[1]))
                      b == index(redirects, a.map, short_name(line[3]))
                  IN /\ index_map' = b.map
                     /\ links' = Append(links, <<a.id, b.id>>)
                     /\ pc' = IF limit # NoLimit /\ l >= limit[1] - 1
                              THEN "break" ELSE "links"
    /\ UNCHANGED <<redirVars, limit, X, rankVars>>

\* The page-links file is exhausted.
EndLinkFile ==
    /\ pc = "links"
    /\ pc' = "eof"
    /\ UNCHANGED <<redirVars, limit, graphVars, rankVars>>

\* Faulty variant of the fill: X[i, j] += 1.0
MutMatrixAccumulate(size, pairs) ==
    [c \in (0 .. size - 1) \X (0 .. size - 1) |->
        Cardinality({p \in 1 .. Len(pairs) : pairs[p] = c})]

\* X = sparse.lil_matrix((n, n)); for i, j in links: X[i, j] = 1.0
MatrixOf(size, pairs) ==
    [c \in (0 .. size - 1) \X (0 .. size - 1) |->
        IF \E p \in 1 .. Len(pairs) : pairs[p] = c THEN 1 ELSE 0]

\* Computing the adjacency matrix, and return X, redirects, index_map.
BuildMatrix ==
    /\ pc \in {"break", "eof"}
    /\ X' = MatrixOf(Cardinality(DOMAIN index_map), links)
    /\ pc' = "built"
    /\ UNCHANGED <<redirVars, limit, lstream, index_map, links, rankVars>>

\* -------------------------------------------------------- exact arithmetic
\* A real number is a fraction <<p, q>> in lowest terms with q > 0.

\* |a|
Abs(a) == IF a < 0 THEN -a ELSE a

\* Greatest common divisor of two naturals.
RECURSIVE GCD(_, _)
GCD(a, b) == IF b = 0 THEN a ELSE GCD(b, a % b)

\* Least common multiple of two positive naturals.
LCM(a, b) == (a \div GCD(a, b)) * b

\* The fraction p / q in lowest terms.
Frac(p, q) ==
    LET g == GCD(Abs(p), Abs(q))
        sgn == IF q < 0 THEN -1 ELSE 1
    IN <<sgn * (p \div g), sgn * (q \div g)>>

Zero == <<0, 1>>
One == <<1, 1>>

\* a + b
RAdd(a, b) ==
    LET m == LCM(a[2], b[2])
    IN Frac(a[1] * (m \div a[2]) + b[1] * (m \div b[2]), m)

\* -a
RNeg(a) == <<-a[1], a[2]>>

\* a - b
RSub(a, b) == RAdd(a, RNeg(b))

\* a * b
RMul(a, b) ==
    LET g1 == GCD(Abs(a[1]), b[2])
        g2 == GCD(Abs(b[1]), a[2])
    IN Frac((a[1] \div g1) * (b[1] \div g2), (a[2] \div g2) * (b[2] \div g1))

\* a / b, for b # 0
RDiv(a, b) == RMul(a, Frac(b[2], b[1]))

\* a < b
RLess(a, b) == RSub(a, b)[1] < 0

\* np.abs on one entry
RAbs(a) == <<Abs(a[1]), a[2]>>

\* The sum of f over the indexes 0 .. k - 1.
RECURSIVE RSum(_, _)
RSum(f, k) == IF k = 0 THEN Zero ELSE RAdd(RSum(f, k - 1), f[k - 1])

\* The largest of f over the indexes 0 .. k - 1, for k >= 1.
RECURSIVE RMax(_, _)
RMax(f, k) ==
    IF k = 1 THEN f[0]
    ELSE LET m == RMax(f, k - 1) IN IF RLess(m, f[k - 1]) THEN f[k - 1] ELSE m

\* -------------------------------------------------------- centrality_scores

\* The reference of the matrix the caller passes in, and of a copy of it.
CallerRef == "caller"
CopyRef == "copy"

\* Damping factors, maximum iteration counts and tolerances of the calls.
Alphas == {<<0, 1>>, <<1, 2>>, <<3, 4>>, <<1, 1>>, <<3, 2>>}
MaxIters == 0 .. MaxIter
Tols == {<<0, 1>>, <<1, 100>>, <<1, 4>>}

\* The 0/1 adjacency matrices with k nodes.
Adjacency(k) ==
    {[c \in (0 .. k - 1) \X (0 .. k - 1) |-> IF c \in E THEN One ELSE Zero] :
        E \in SUBSET ((0 .. k - 1) \X (0 .. k - 1))}

\* Faulty variant of the copy: the local X keeps naming the caller's object.
MutNoCopy(heap, ref) == [heap |-> heap, ref |-> ref]

\* X.copy(): the heap afterwards and the reference of the new object.
CopyOf(heap, ref) == [heap |-> Put(heap, CopyRef, heap[ref]), ref |-> CopyRef]

\* np.asarray(X.sum(axis=1)).ravel(): the sum of each row.
RowSums(M, k) == [i \in 0 .. k - 1 |-> RSum([j \in 0 .. k - 1 |-> M[<<i, j>>]], k)]

\* for i in incoming_counts.nonzero()[0]: row i *= 1.0 / incoming_counts[i]
Normalized(M, k) ==
    LET incoming_counts == RowSums(M, k) IN
    [c \in DOMAIN M |->
        IF incoming_counts[c[1]] # Zero
        THEN RMul(M[c], RDiv(One, incoming_counts[c[1]]))
        ELSE M[c]]

\* Faulty variant of dangle: the mass of dangling rows is dropped.
MutDangleZero(M, k) == [i \in 0 .. k - 1 |-> Zero]

\* np.where(X.sum(axis=1) == 0, 1.0 / n, 0)
DangleOf(M, k) ==
    LET sums == RowSums(M, k) IN
    [i \in 0 .. k - 1 |-> IF sums[i] = Zero THEN Frac(1, k) ELSE Zero]

\* np.dot(u, v)
Dot(u, v, k) == RSum([i \in 0 .. k - 1 |-> RMul(u[i], v[i])], k)

\* alpha * (scores * X + np.dot(dangle, prev_scores))
\*     + (1 - alpha) * prev_scores.sum() / n
PowerStep(M, k, a, d, prev) ==
    LET leak == Dot(d, prev, k)
        tele == RDiv(RMul(RSub(One, a), RSum(prev, k)), <<k, 1>>)
    IN [j \in 0 .. k - 1 |->
          RAdd(RMul(a, RAdd(Dot(prev, [i \in 0 .. k - 1 |-> M[<<i, j>>]], k),
                            leak)),
               tele)]

\* np.abs(scores - prev_scores).max() / scores_max, with scores_max the
\* largest |entry| of scores, or 1.0 when that is 0.0
ErrOf(prev, new, k) ==
    LET m == RMax([i \in 0 .. k - 1 |-> RAbs(new[i])], k)
        scores_max == IF m = Zero THEN One ELSE m
    IN RDiv(RMax([i \in 0 .. k - 1 |-> RAbs(RSub(new[i], prev[i]))], k),
            scores_max)

\* err < n * tol
BelowTol(prev, new, k, t) == RLess(ErrOf(prev, new, k), RMul(<<k, 1>>, t))

\* Faulty variant of the loop bound: one pass too many.
MutLoopOneMore(i, m) == i >= m + 1

\* range(max_iter) is exhausted after i passes.
LoopExhausted(i, m) == i >= m

\* X = X.copy(); n is X.shape[0], set when the call is made.
CopyMatrix ==
    /\ rpc = "called"
    /\ LET c == CopyOf(mats, Xref) IN
          /\ mats' = c.heap
          /\ Xref' = c.ref
    /\ rpc' = "copied"
    /\ UNCHANGED <<n, alpha, max_iter, tol, dangle, scores, prev_scores, it>>
    /\ UNCHANGED <<pc, redirVars, limit, graphVars>>

\* Normalizing the graph: the rows of X are rescaled in place, then dangle.
Normalize ==
    /\ rpc = "copied"
    /\ LET W == Normalized(mats[Xref], n) IN
          /\ mats' = [mats EXCEPT ![Xref] = W]
          /\ dangle' = DangleOf(W, n)
    /\ rpc' = "normalized"
    /\ UNCHANGED <<Xref, n, alpha, max_iter, tol, scores, prev_scores, it>>
    /\ UNCHANGED <<pc, redirVars, limit, graphVars>>

\* scores = np.ones(n, dtype=np.float32) / n
InitScores ==
    /\ rpc = "normalized"
    /\ scores' = [i \in 0 .. n - 1 |-> Frac(1, n)]
    /\ rpc' = "iter"
    /\ UNCHANGED <<mats, Xref, n, alpha, max_iter, tol, dangle, prev_scores, it>>
    /\ UNCHANGED <<pc, redirVars, limit, graphVars>>

\* One pass of for i in range(max_iter), with its early return.
Iterate ==
    /\ rpc = "iter"
    /\ ~LoopExhausted(it, max_iter)
    /\ LET new == PowerStep(mats[Xref], n, alpha, dangle, scores) IN
          /\ prev_scores' = scores
          /\ scores' = new
          /\ rpc' = IF BelowTol(scores, new, n, tol) THEN "returned" ELSE "iter"
    /\ it' = it + 1
    /\ UNCHANGED <<mats, Xref, n, alpha, max_iter, tol, dangle>>
    /\ UNCHANGED <<pc, redirVars, limit, graphVars>>

\* The for loop is exhausted: return scores
ReturnLast ==
    /\ rpc = "iter"
    /\ LoopExhausted(it, max_iter)
    /\ rpc' = "returned"
    /\ UNCHANGED <<mats, Xref, n, alpha, max_iter, tol, dangle, scores,
                   prev_scores, it>>
    /\ UNCHANGED <<pc, redirVars, limit, graphVars>>

\* --------------------------------------------------------- specifications

\* No call of centrality_scores is in progress.
RankIdle ==
    /\ rpc = "idle"
    /\ mats = EmptyDict
    /\ Xref = None
    /\ n = 0
    /\ alpha = Zero
    /\ max_iter = 0
    /\ tol = Zero
    /\ dangle = << >>
    /\ scores = << >>
    /\ prev_scores = << >>
    /\ it = 0

\* No call of get_adjacency_matrix is in progress.
PipelineIdle ==
    /\ pc = "idle"
    /\ rstream = << >>
    /\ redirects = EmptyDict
    /\ redirects0 = EmptyDict
    /\ keys = {}
    /\ source = None
    /\ target = None
    /\ transitive_target = None
    /\ seen = {}
    /\ limit = NoLimit
    /\ lstream = << >>
    /\ index_map = EmptyDict
    /\ links = << >>
    /\ X = None

\* get_adjacency_matrix(redirects_filename, page_links_filename, limit) is
\* called.
Init ==
    /\ pc = "parse"
    /\ rstream = << >>
    /\ redirects = EmptyDict
    /\ redirects0 = EmptyDict
    /\ keys = {}
    /\ source = None
    /\ target = None
    /\ transitive_target = None
    /\ seen = {}
    /\ limit \in Limits
    /\ lstream = << >>
    /\ index_map = EmptyDict
    /\ links = << >>
    /\ X = None
    /\ RankIdle

\* centrality_scores(X, alpha, max_iter, tol) is called on a 0/1 matrix.
InitRank ==
    /\ PipelineIdle
    /\ rpc = "called"
    /\ n \in 1 .. MaxN
    /\ mats \in {[r \in {CallerRef} |-> M] : M \in Adjacency(n)}
    /\ Xref = CallerRef
    /\ alpha \in Alphas
    /\ max_iter \in MaxIters
    /\ tol \in Tols
    /\ dangle = << >>
    /\ scores = << >>
    /\ prev_scores = << >>
    /\ it = 0

\* get_redirects alone.
NextRedirects ==
    \/ ReadRedirectLine
    \/ EndRedirectFile
    \/ NextKey
    \/ WalkHop
    \/ WalkStop
    \/ ReturnRedirects

\* get_adjacency_matrix, which calls get_redirects first.
Next ==
    \/ ReadRedirectLine
    \/ EndRedirectFile
    \/ NextKey
    \/ WalkHop
    \/ WalkStop
    \/ ReturnRedirects
    \/ BeginIngest
    \/ ReadLinkLine
    \/ EndLinkFile
    \/ BuildMatrix

Spec == Init /\ [][Next]_vars

\* get_redirects runs to its end: a single thread that is never suspended.
RedirectSpec == Init /\ [][NextRedirects]_vars /\ WF_vars(NextRedirects)

\* centrality_scores.
NextRank ==
    \/ CopyMatrix
    \/ Normalize
    \/ InitScores
    \/ Iterate
    \/ ReturnLast

RankSpec == InitRank /\ [][NextRank]_vars

\* ------------------------------------------------ properties: get_redirects

\* The names reached from k in 1 .. hops hops of map m.
RECURSIVE HopsFrom(_, _, _)
HopsFrom(m, k, hops) ==
    IF hops = 0 \/ k \notin DOMAIN m THEN {}
    ELSE {m[k]} \cup HopsFrom(m, m[k], hops - 1)

\* Map m has no cycle and no self-redirect.
Acyclic(m) ==
    \A k \in DOMAIN m : k \notin HopsFrom(m, k, Cardinality(DOMAIN m))

\* The end of k's redirect chain in an acyclic map m.
RECURSIVE ChainEnd(_, _)
ChainEnd(m, k) == IF k \in DOMAIN m THEN ChainEnd(m, m[k]) ELSE k

\* The names of map m: its keys and its values.
NamesOf(m) == DOMAIN m \cup {m[k] : k \in DOMAIN m}

\* C1: for a redirect map without cycle or self-redirect, the closed map
\* get_redirects returns sends every key to a name that has no entry in the
\* map as parsed: the end of the key's redirect chain.
C1_ClosureReachesChainEnd ==
    (pc = "returned" /\ Acyclic(redirects0)) =>
        /\ DOMAIN redirects = DOMAIN redirects0
        /\ \A k \in DOMAIN redirects :
              /\ redirects[k] \notin DOMAIN redirects0
              /\ redirects[k] = ChainEnd(redirects0, k)

\* A closed acyclic map in which some chain had more than one hop.
C1_Witness ==
    /\ pc = "returned"
    /\ Acyclic(redirects0)
    /\ \E k \in DOMAIN redirects0 :
          /\ redirects0[k] \in DOMAIN redirects0
          /\ redirects[k] # redirects0[k]

\* C2: for every redirect map, cyclic or not, the closure pass terminates:
\* get_redirects returns, no walk visits more names than the map has, and
\* every key of the returned map has a target that is a name of the map.
C2_ClosureTerminates ==
    /\ <>(pc = "returned")
    /\ [](pc = "walk" =>
            /\ seen \subseteq NamesOf(redirects0)
            /\ target \in NamesOf(redirects0))
    /\ [](pc = "returned" =>
            /\ DOMAIN redirects = DOMAIN redirects0
            /\ \A k \in DOMAIN redirects :
                  redirects[k] \in NamesOf(redirects0))

\* get_redirects has returned on the cycle A -> B -> C -> A.
C2_Witness ==
    /\ pc = "returned"
    /\ redirects0 = [k \in {"A", "B", "C"} |->
                        IF k = "A" THEN "B" ELSE IF k = "B" THEN "C" ELSE "A"]

\* --------------------------------------- properties: get_adjacency_matrix

\* A line with exactly 4 tokens.
IsTriple(ln) == Len(ln) = 4

\* A stream with its malformed lines removed.
Clean(stream) == SelectSeq(stream, IsTriple)

\* A name after redirect resolution through the closed map.
Resolve(name) == Get(redirects, name, name)

\* The resolved names of a stream of triples in the order they are met:
\* subject, then object, triple after triple.
RECURSIVE Encounters(_)
Encounters(triples) ==
    IF triples = << >> THEN << >>
    ELSE <<Resolve(short_name(Head(triples)[1])),
           Resolve(short_name(Head(triples)[3]))>> \o Encounters(Tail(triples))

\* The position at which x is first met in e.
FirstPos(e, x) ==
    CHOOSE p \in 1 .. Len(e) : e[p] = x /\ \A q \in 1 .. p - 1 : e[q] # x

\* The ingestion loop is running or over.
Ingesting == pc \in {"links", "break", "eof", "built"}

\* index_map is a bijection from the resolved names met so far onto
\* 0 .. |index_map| - 1, in first-met order.
IndexMapInFirstSeenOrder ==
    LET e == Encounters(Clean(lstream))
        size == Cardinality(DOMAIN index_map)
    IN /\ DOMAIN index_map = {e[p] : p \in 1 .. Len(e)}
       /\ {index_map[k] : k \in DOMAIN index_map} = 0 .. size - 1
       /\ \A x, y \in DOMAIN index_map :
             /\ index_map[x] = index_map[y] => x = y
             /\ index_map[x] < index_map[y] <=> FirstPos(e, x) < FirstPos(e, y)

\* No step changes or removes an id index_map holds.
IdsStable ==
    \A k \in DOMAIN index_map :
        k \in DOMAIN index_map' /\ index_map'[k] = index_map[k]

\* C3: throughout link ingestion index_map is a bijection from the resolved
\* names met so far onto 0 .. |index_map| - 1, ids follow the order in which
\* resolved names are first met (subject before object), and no later call
\* of index() changes an id or gives it to another name.
C3_IndexMapStableBijection ==
    /\ [](Ingesting => IndexMapInFirstSeenOrder)
    /\ [][IdsStable]_vars

\* Two triples ingested, three names indexed: one name was met again.
C3_Witness ==
    /\ pc = "eof"
    /\ Len(links) = 2
    /\ Cardinality(DOMAIN index_map) = 3
    /\ \E k \in DOMAIN redirects : redirects[k] \in DOMAIN index_map

\* Triple ln resolves to the pair of ids c.
ResolvesTo(ln, c) ==
    /\ IsTriple(ln)
    /\ index_map[Resolve(short_name(ln[1]))] = c[1]
    /\ index_map[Resolve(short_name(ln[3]))] = c[2]

\* C4: the matrix returned is N x N with N = |index_map|; cell (i, j) is 1
\* iff some ingested triple resolves to (i, j), and 0 otherwise: triples
\* that resolve to the same pair give one cell of value 1, never more.
C4_MatrixIsEdgeRelation ==
    pc = "built" =>
        LET size == Cardinality(DOMAIN index_map) IN
        /\ DOMAIN X = (0 .. size - 1) \X (0 .. size - 1)
        /\ \A c \in DOMAIN X :
              X[c] = IF \E p \in 1 .. Len(lstream) : ResolvesTo(lstream[p], c)
                     THEN 1 ELSE 0

\* Two different triples were ingested that resolve to the same cell.
C4_Witness ==
    /\ pc = "built"
    /\ \E p, q \in 1 .. Len(lstream) : \E c \in DOMAIN X :
          /\ lstream[p] # lstream[q]
          /\ ResolvesTo(lstream[p], c)
          /\ ResolvesTo(lstream[q], c)
          /\ X[c] = 1

\* index_map and links after ingesting a stream of triples, from im and ls.
RECURSIVE Ingest(_, _, _)
Ingest(triples, im, ls) ==
    IF triples = << >> THEN [map |-> im, links |-> ls]
    ELSE LET a == index(redirects, im, short_name(Head(triples)[1]))
             b == index(redirects, a.map, short_name(Head(triples)[3]))
         IN Ingest(Tail(triples), b.map, Append(ls, <<a.id, b.id>>))

\* The smaller of two numbers.
Min(a, b) == IF a < b THEN a ELSE b

\* C5: with a limit L the ingestion stops once L edges have been ingested
\* and not earlier: the recorded pairs are those of the first min(L, W)
\* well-formed triples, and a loop ended by the limit has ingested L edges.
C5_LimitCountsEdges ==
    (limit # NoLimit /\ pc \in {"break", "eof"}) =>
        LET c == Clean(lstream)
            m == Min(limit[1], Len(c))
        IN /\ links = Ingest(SubSeq(c, 1, m), EmptyDict, << >>).links
           /\ pc = "break" => Len(links) = limit[1]

\* The redirects dict after parsing a stream of triples, from d.
RECURSIVE ParseAll(_, _)
ParseAll(triples, d) ==
    IF triples = << >> THEN d
    ELSE ParseAll(Tail(triples), ParseRedirect(d, Head(triples)))

\* The outputs are those of the stream without its malformed lines.
MalformedLinesIgnored ==
    /\ pc = "parse" => redirects = ParseAll(Clean(rstream), EmptyDict)
    /\ (limit = NoLimit /\ pc \in {"links", "eof", "built"}) =>
          LET r == Ingest(Clean(lstream), EmptyDict, << >>) IN
          /\ index_map = r.map
          /\ links = r.links
          /\ pc = "built" => X = MatrixOf(Cardinality(DOMAIN r.map), r.links)

\* A step that reads a malformed line changes nothing and stays in its loop.
MalformedLineSkipped ==
    /\ (Len(rstream') > Len(rstream) /\ ~IsTriple(rstream'[Len(rstream')])) =>
          pc' = "parse" /\ redirects' = redirects
    /\ (Len(lstream') > Len(lstream) /\ ~IsTriple(lstream'[Len(lstream')])) =>
          pc' = "links" /\ index_map' = index_map /\ links' = links

\* C6: a line whose token count is not 4 is never fatal and has no effect:
\* get_redirects leaves the redirect map unchanged, get_adjacency_matrix
\* leaves index_map and the recorded pairs unchanged, both loops go on, and
\* (no limit given) the outputs are those of the stream without such lines.
C6_MalformedLinesSkipped ==
    /\ []MalformedLinesIgnored
    /\ [][MalformedLineSkipped]_vars

\* Without a limit, a malformed line was read and a triple ingested after it.
C6_Witness ==
    /\ pc = "built"
    /\ limit = NoLimit
    /\ Len(lstream) = 2
    /\ ~IsTriple(lstream[1])
    /\ IsTriple(lstream[2])
    /\ Len(links) = 1


\* ------------------------------------------- properties: centrality_scores

\* 0 < alpha < 1
ValidAlpha == RLess(Zero, alpha) /\ RLess(alpha, One)

\* alpha outside (0, 1), max_iter <= 0 or tol <= 0.
InvalidParams == ~ValidAlpha \/ max_iter <= 0 \/ ~RLess(Zero, tol)

\* C7: called with alpha outside (0, 1), a non-positive max_iter or a
\* non-positive tolerance, centrality_scores does not normalize the
\* matrix, runs no power iteration and returns no score vector.
C7_RejectsInvalidParameters ==
    (rpc # "idle" /\ InvalidParams) => rpc \notin {"normalized", "iter", "returned"}

\* No step changes the matrix object the caller passed in.
CallerMatrixKept == mats'[CallerRef] = mats[CallerRef]

\* C8: centrality_scores leaves the caller's matrix unchanged: the row
\* normalization and the power iteration act on a private copy, and at the
\* return every cell of the caller's matrix still has its 0/1 value.
C8_CallerMatrixUnchanged ==
    /\ [][CallerMatrixKept]_vars
    /\ [](rpc = "returned" =>
            \A c \in DOMAIN mats[CallerRef] : mats[CallerRef][c] \in {Zero, One})

\* The call has returned and normalization changed the working copy.
C8_Witness ==
    /\ rpc = "returned"
    /\ it >= 1
    /\ CopyRef \in DOMAIN mats
    /\ \E c \in DOMAIN mats[CopyRef] : mats[CopyRef][c] \notin {Zero, One}

\* C9: for alpha in (0, 1) the score vector has only nonnegative entries
\* and sums to 1 after initialization and after every update.
C9_ScoresAreDistribution ==
    (ValidAlpha /\ rpc \in {"iter", "returned"}) =>
        /\ RSum(scores, n) = One
        /\ \A i \in 0 .. n - 1 : scores[i][1] >= 0

\* Two updates were made on a matrix with a dangling and a linked row.
C9_Witness ==
    /\ rpc = "returned"
    /\ ValidAlpha
    /\ it >= 2
    /\ \E i, j \in 0 .. n - 1 : dangle[i] = Zero /\ dangle[j] # Zero

\* The loop's position agrees with the errors of the updates made.
UpdatesBounded ==
    rpc \in {"iter", "returned"} =>
        /\ it <= max_iter
        /\ (rpc = "iter" /\ it >= 1) => ~BelowTol(prev_scores, scores, n, tol)
        /\ rpc = "returned" =>
              \/ it >= 1 /\ BelowTol(prev_scores, scores, n, tol)
              \/ it = max_iter

\* An update starts from the completed result of the one before, and the
\* vector returned is the last one computed.
UpdatesInSequence ==
    /\ it' # it => (rpc = "iter" /\ it' = it + 1 /\ prev_scores' = scores)
    /\ (rpc = "iter" /\ scores' # scores) => it' = it + 1
    /\ (rpc = "iter" /\ rpc' = "returned" /\ it' = it) => scores' = scores

\* C10: the updates run one after another, each from the result of the one
\* before; at most max_iter are made; the vector returned is that of the
\* first update whose normalized error is below N * tol, or that of update
\* number max_iter when no update meets the threshold.
C10_IterationStopsAtFirstBelowTol ==
    /\ []UpdatesBounded
    /\ [][UpdatesInSequence]_vars

\* An early return: fewer than max_iter updates were made.
C10_Witness ==
    /\ rpc = "returned"
    /\ 1 <= it
    /\ it < max_iter
    /\ tol # Zero

\* ------------------------------------- properties: the closure pass's walk

\* The names the walk of source has reached: the key itself, its first
\* target and every target reached after it. redirects is not written
\* before the walk ends, so redirects[source] is still the first target.
Reached == seen \cup {redirects[source]}

\* A hop of a walk only goes to a name the walk has not reached, and the
\* name a walk records is the one it stopped at.
WalkReachesNewNames ==
    /\ (pc = "walk" /\ pc' = "walk") => target' \notin Reached
    /\ (pc = "walk" /\ pc' = "closure") =>
          /\ redirects'[source] = transitive_target'
          /\ LET nxt == Get(redirects, transitive_target', None) IN
                nxt = None \/ nxt \in Reached

\* C11: the walk of a key stops at the first name whose next hop is absent
\* or already visited in this walk (the key, the first target and every
\* later target) and records that name; no name is reached twice in a walk.
C11_WalkStopsAtFirstRevisit == [][WalkReachesNewNames]_vars

\* The name the walk's loop ends on when it runs from tgt in map m, which
\* no step writes.
RECURSIVE WalkInCopy(_, _, _)
WalkInCopy(m, tgt, visited) ==
    LET nxt == Get(m, tgt, None) IN
    IF nxt = None \/ nxt \in visited THEN tgt
    ELSE WalkInCopy(m, nxt, visited \cup {nxt})

\* The closed map obtained by walking every key in an untouched copy of m.
ClosedCopy(m) == [k \in DOMAIN m |-> WalkInCopy(m, m[k], {k})]

====
